---- MODULE Spec2Model ----
(***************************************************************************)
(* A model of the flooerr structured-error library: the ErrProps builder   *)
(* (package internal), the err value it produces (package flooerr) and the *)
(* lazily resolved stack trace of that value.                              *)
(*                                                                         *)
(* Go pointers are indices into heaps (sequences); index 0 is nil.  Go     *)
(* maps are TLA+ functions whose DOMAIN is the set of keys present, kept   *)
(* in a heap so that two holders of the same map see each other's writes.  *)
(***************************************************************************)
EXTENDS Integers, Sequences, FiniteSets, TLC

VARIABLES
    buildErrFunc,   \* internal.buildErrFunc, the registered constructor
    props,          \* heap of *ErrProps (builders)
    ctxHeap,        \* heap of map[string]any
    sdcHeap,        \* heap of map[string]string
    errs,           \* heap of error values (err, simpleError, errors.New values)
    ret,            \* outcome of the last terminal call (Build and its aliases)
    origin,         \* per error value: the Build call that made it (history)
    obs,            \* per error value: what its StackTrace() calls did (history)
    ctxLog,         \* per builder: the WithContext calls made on it (history)
    sdcLog,         \* per builder: the WithSDC calls made on it (history)
    setLog,         \* per builder: the last argument of each With* setter and
                    \* the pointer the last setter returned (history)
    out,            \* the last call of an introspection utility and its result
    race,           \* the goroutines reading one error value's StackTrace()
                    \* concurrently, and the words of its cache in memory
    registered,     \* the argument of the last SetBuildErrFunc call (history)
    walk            \* the call of UnwrapChain or GetRootCause in progress

vars == <<buildErrFunc, props, ctxHeap, sdcHeap, errs, ret, origin, obs, ctxLog, sdcLog,
          setLog, out, race, registered, walk>>

----------------------------------------------------------------------------
(* Bounds of the model *)

MaxObjects == 4       \* builders and error values alive (Spec, SpecFn)
MaxStackObjects == 3  \* builders and error values alive (SpecStack)
MaxBagObjects == 3    \* builders and error values alive (SpecBags)
MaxPuts == 3          \* WithContext and WithSDC calls in all
MaxStackCalls == 3    \* StackTrace() calls per error value
MaxUserFrames == 4    \* user frames on the goroutine's stack at a terminal call
MaxChainObjects == 5  \* builders and error values alive (SpecChain)
MaxSetObjects == 3    \* builders and error values alive (SpecSet)
MaxSetPuts == 1       \* WithContext and WithSDC calls in all (SpecSet)
MaxRaceObjects == 3   \* builders and error values alive (SpecRace)
MaxReaders == 2       \* goroutines calling StackTrace() on one error value
MaxReadObjects == 3   \* builders and error values alive (SpecRead)
MaxReadPuts == 2      \* WithContext and WithSDC calls in all (SpecRead)
MaxReadCalls == 1     \* StackTrace() calls per error value (SpecRead)
MaxKeyObjects == 4    \* builders and error values alive (SpecKeys)
MaxKeyPuts == 2       \* WithContext and WithSDC calls in all (SpecKeys)
MaxTextObjects == 4   \* builders and error values alive (SpecText)
MaxCtorObjects == 4   \* builders and error values alive (SpecCtor)
MaxCycleObjects == 4  \* builders and error values alive (SpecCycle)
MaxWalkLen == 4       \* links UnwrapChain can append before memory runs out
MaxDeepObjects == 3   \* builders and error values alive (SpecDeep)
MaxDeepFrames == 16   \* user frames on the stack at a terminal call (SpecDeep)
MaxDeepCalls == 1     \* StackTrace() calls per error value (SpecDeep)

(* Inputs *)

Messages == {"", "Y"}
Fallbacks == {"X", "W"}
Codes == {"", "DB_ERR"}
Keys == {"host", "port"}
Values == {"localhost", "nil"}      \* "nil" stands for the nil interface value
SDCKeys == {"trace_id"}
SDCValues == {"t1", ""}
Vias == {"Build", "Error", "Wrap", "Errorf", "Wrapf"}
Roots == {"main", "go"}
BuildErrFuncs == {"newErr", "nil", "customError", "customNil"}

----------------------------------------------------------------------------
(* Slices: Go distinguishes a nil slice from an empty one; len() is 0 for both *)

NilSlice == [isnil |-> TRUE, elems |-> <<>>]

MkSlice(s) == [isnil |-> FALSE, elems |-> s]

SliceLen(sl) == Len(sl.elems)

Min(a, b) == IF a < b THEN a ELSE b

----------------------------------------------------------------------------
(* Maps *)

EmptyMap == <<>>

(* Variant: an existing key keeps its first value *)
MapPutKeepFirst(m, key, value) ==
    [k \in (DOMAIN m) \cup {key} |-> IF k \in DOMAIN m THEN m[k] ELSE value]

MapPut(m, key, value) ==
    [k \in (DOMAIN m) \cup {key} |-> IF k = key THEN value ELSE m[k]]

MapLen(m) == Cardinality(DOMAIN m)

----------------------------------------------------------------------------
(* The builder, package internal *)

(* Variant: the maps are left nil *)
createNoMaps(ctxRef, sdcRef) ==
    [message |-> "", code |-> "", withStackTrace |-> TRUE, context |-> 0, sdc |-> 0]

create(ctxRef, sdcRef) ==
    [message |-> "", code |-> "", withStackTrace |-> TRUE,
     context |-> ctxRef, sdc |-> sdcRef]

(* The goroutine's stack at the moment runtime.Callers runs, innermost frame
   first: runtime.Callers, callers, Build, the alias the caller used (if any),
   d user frames (f1 is the function holding the call site), then the frames
   the runtime puts under every goroutine: runtime.main and runtime.goexit
   under main.main, runtime.goexit alone under the function of a go
   statement. *)
RootFrames(root) ==
    IF root = "main" THEN <<"runtime.main", "runtime.goexit">>
    ELSE <<"runtime.goexit">>

GoStack(via, d, root) ==
    <<"runtime.Callers", "internal.callers", "ErrProps.Build">>
    \o (IF via = "Build" THEN <<>> ELSE << "ErrProps." \o via >>)
    \o [i \in 1..d |-> "main.f" \o ToString(i)]
    \o RootFrames(root)

depth == 15

(* runtime.Callers(skip, pcs[:]): the frames after the first skip ones, at
   most len(pcs) of them *)
RuntimeCallers(stack, skip, size) ==
    IF skip >= Len(stack) THEN <<>>
    ELSE SubSeq(stack, skip + 1, Min(Len(stack), skip + size))

(* callers: pcs[0 : n-2] panics (slice bounds out of range) when n < 2 *)
callers(stack, skip) ==
    LET pcs == RuntimeCallers(stack, skip, depth)
        n == Len(pcs)
    IN  IF n - 2 < 0
        THEN [panic |-> TRUE, st |-> NilSlice]
        ELSE [panic |-> FALSE, st |-> MkSlice(SubSeq(pcs, 1, n - 2))]

(* Build, lines 64-67 *)
Capture(p, stack) ==
    IF p.withStackTrace THEN callers(stack, 4)
    ELSE [panic |-> FALSE, st |-> NilSlice]

(* Variant: the fallback wins over the explicit message *)
ResolveMessageFallbackFirst(explicit, message) ==
    IF message # "" THEN message ELSE explicit

(* Build, lines 69-72 *)
ResolveMessage(explicit, message) ==
    IF explicit # "" THEN explicit ELSE message

----------------------------------------------------------------------------
(* Error values *)

ZeroErr ==
    [type |-> "", message |-> "", errMessage |-> "", code |-> "", cause |-> 0,
     stackTracePTR |-> NilSlice, stackTrace |-> <<>>, context |-> 0, sdc |-> 0,
     s |-> ""]

(* Variant: the message field holds the rendered message *)
newErrRendered(message, errMessage, code, cause, stackTracePTR, context, sdc) ==
    [ZeroErr EXCEPT !.type = "err", !.message = errMessage,
                    !.errMessage = errMessage, !.code = code, !.cause = cause,
                    !.stackTracePTR = stackTracePTR, !.stackTrace = <<>>,
                    !.context = context, !.sdc = sdc]

(* Variant: the cause is not stored *)
newErrNoCause(message, errMessage, code, cause, stackTracePTR, context, sdc) ==
    [ZeroErr EXCEPT !.type = "err", !.message = message,
                    !.errMessage = errMessage, !.code = code, !.cause = 0,
                    !.stackTracePTR = stackTracePTR, !.stackTrace = <<>>,
                    !.context = context, !.sdc = sdc]

newErr(message, errMessage, code, cause, stackTracePTR, context, sdc) ==
    [ZeroErr EXCEPT !.type = "err", !.message = message,
                    !.errMessage = errMessage, !.code = code, !.cause = cause,
                    !.stackTracePTR = stackTracePTR, !.stackTrace = <<>>,
                    !.context = context, !.sdc = sdc]

simpleError(message) == [ZeroErr EXCEPT !.type = "simpleError", !.message = message]

errorsNew(text) == [ZeroErr EXCEPT !.type = "errorString", !.s = text]

Delim == "; caused by: "

(* Variant: the cause is appended with a bare ": " *)
RECURSIVE ErrErrorColon(_, _)
ErrErrorColon(h, e) ==
    LET v == h[e]
    IN  CASE v.type = "err" ->
                IF v.cause # 0
                THEN v.errMessage \o ": " \o ErrErrorColon(h, v.cause)
                ELSE v.errMessage
          [] v.type = "simpleError" -> v.message
          [] OTHER -> v.s

RECURSIVE ErrError(_, _)
ErrError(h, e) ==
    LET v == h[e]
    IN  CASE v.type = "err" ->
                IF v.cause # 0
                THEN v.errMessage \o Delim \o ErrError(h, v.cause)
                ELSE v.errMessage
          [] v.type = "simpleError" -> v.message
          [] OTHER -> v.s

(* The stack trace of an error value, package flooerr *)

stacktrace(Function, File, Line) ==
    [Function |-> Function, File |-> File, Line |-> Line]

(* runtime.Frames.Next: the frame of the i-th pc, and whether a further call
   will return a valid frame (no inlining: one frame per pc) *)
CallersFramesNext(pcs, i) ==
    [frame |-> [Function |-> pcs[i], File |-> pcs[i] \o ".go", Line |-> i],
     more |-> i < Len(pcs)]

(* StackTrace, lines 49-59: the loop leaves as soon as more is false *)
RECURSIVE SymbolizeLoop(_, _, _)
SymbolizeLoop(pcs, i, traces) ==
    LET nx == CallersFramesNext(pcs, i)
    IN  IF ~nx.more THEN traces
        ELSE SymbolizeLoop(pcs, i + 1,
                Append(traces, stacktrace(nx.frame.Function, nx.frame.File, nx.frame.Line)))

(* Variant: a cache hit answers the cache without its first frame *)
StackTraceCallShortHit(v) ==
    IF Len(v.stackTrace) > 0
    THEN [result |-> Tail(v.stackTrace), cache |-> v.stackTrace, symbolized |-> FALSE]
    ELSE IF SliceLen(v.stackTracePTR) = 0
    THEN [result |-> <<>>, cache |-> v.stackTrace, symbolized |-> FALSE]
    ELSE LET traces == SymbolizeLoop(v.stackTracePTR.elems, 1, <<>>)
         IN  [result |-> traces, cache |-> traces, symbolized |-> TRUE]

(* StackTrace: what the call returns, what the cache holds after it, and
   whether it symbolized *)
StackTraceCall(v) ==
    IF Len(v.stackTrace) > 0
    THEN [result |-> v.stackTrace, cache |-> v.stackTrace, symbolized |-> FALSE]
    ELSE IF SliceLen(v.stackTracePTR) = 0
    THEN [result |-> <<>>, cache |-> v.stackTrace, symbolized |-> FALSE]
    ELSE LET traces == SymbolizeLoop(v.stackTracePTR.elems, 1, <<>>)
         IN  [result |-> traces, cache |-> traces, symbolized |-> TRUE]

(* Accessors of an error value in heap h *)
ErrContext(ch, v) == ch[v.context]

ErrSDC(sh, v) == sh[v.sdc]

----------------------------------------------------------------------------
(* Variant: with no constructor the cause is returned even when it is nil *)
BuildReturnCauseAlways(fn, p, errMessage, cause, st) ==
    CASE fn = "newErr" ->
            [kind |-> "new", val |-> 0,
             obj |-> newErr(p.message, errMessage, p.code, cause, st, p.context, p.sdc)]
      [] fn = "customError" ->
            [kind |-> "new", val |-> 0, obj |-> errorsNew("custom error")]
      [] fn = "customNil" ->
            [kind |-> "nil", val |-> 0, obj |-> ZeroErr]
      [] OTHER ->
            IF cause # 0
            THEN [kind |-> "old", val |-> cause, obj |-> ZeroErr]
            ELSE [kind |-> "nil", val |-> 0, obj |-> ZeroErr]

(* Variant: with no constructor the cause is dropped for a minimal error *)
BuildReturnDropCause(fn, p, errMessage, cause, st) ==
    CASE fn = "newErr" ->
            [kind |-> "new", val |-> 0,
             obj |-> newErr(p.message, errMessage, p.code, cause, st, p.context, p.sdc)]
      [] fn = "customError" ->
            [kind |-> "new", val |-> 0, obj |-> errorsNew("custom error")]
      [] fn = "customNil" ->
            [kind |-> "nil", val |-> 0, obj |-> ZeroErr]
      [] OTHER ->
            [kind |-> "new", val |-> 0, obj |-> simpleError(errMessage)]

(* Build, lines 74-92: what is returned once the capture and the message are
   settled.  kind "new": a freshly allocated value obj; "old": the existing
   value val; "nil": a nil error. *)
BuildReturn(fn, p, errMessage, cause, st) ==
    CASE fn = "newErr" ->
            [kind |-> "new", val |-> 0,
             obj |-> newErr(p.message, errMessage, p.code, cause, st, p.context, p.sdc)]
      [] fn = "customError" ->
            [kind |-> "new", val |-> 0, obj |-> errorsNew("custom error")]
      [] fn = "customNil" ->
            [kind |-> "nil", val |-> 0, obj |-> ZeroErr]
      [] OTHER ->
            IF cause # 0
            THEN [kind |-> "old", val |-> cause, obj |-> ZeroErr]
            ELSE [kind |-> "new", val |-> 0, obj |-> simpleError(errMessage)]

(* The record of a terminal call: its outcome ("value", "nil" or "panic"), the
   value returned, the builder, the cause and the constructor registered at the
   call, and the goroutine's stack when it panicked *)
NoCall ==
    [outcome |-> "none", val |-> 0, r |-> 0, cause |-> 0, fn |-> "", stack |-> <<>>]

(* The setter calls made on a builder so far: the last argument of
   WithMessage, WithCode and WithStackTrace (<<>> when never called, else
   <<argument>>), the pointer returned by the last With* call (0 when none
   returned yet), and the call of the standalone constructor that made the
   builder, its name followed by its arguments (<<>> for Create) *)
NoSets ==
    [message |-> <<>>, code |-> <<>>, stack |-> <<>>, returned |-> 0, ctor |-> <<>>]

(* The record of the Build call that allocated an error value; sets is the
   builder's setter record at the call, and frames, for a call that captured,
   the number of frames of the goroutine's stack from the function holding
   the terminal call outward *)
NoOrigin ==
    [r |-> 0, capture |-> FALSE, explicit |-> "", fallback |-> "", cause |-> 0,
     sets |-> NoSets, frames |-> 0]

(* The record of a call of an introspection utility: the function, its error
   argument (0 is nil), its key or code argument, and its result *)
NoOut == [op |-> "", err |-> 0, key |-> "", res |-> 0]

(* No goroutine reads a stack trace concurrently.  While goroutines do, e is
   the error value they read, ptr and len are the data pointer and the length
   of its stackTrace field as they stand in memory (the capacity is written
   and read like the length), and readers holds one record per goroutine.  A
   data pointer is 0 for nil, else the reader whose traces it points to. *)
NoRace == [e |-> 0, ptr |-> 0, len |-> 0, readers |-> <<>>]

(* No call of UnwrapChain or GetRootCause is in progress.  While one is, op is
   the function, err its argument, current and chain the variables of the
   loop of UnwrapChain, pc where the call stands ("loop" at the loop test, "as"
   inside errors.As, "done" once it returned) and target the link errors.As
   is looking at. *)
NoWalk ==
    [op |-> "", err |-> 0, pc |-> "", current |-> 0, chain |-> <<>>, target |-> 0]

(* A goroutine entering StackTrace: where it stands, its local traces, the
   words of the field it has loaded or stored so far, and what it returned *)
NewReader ==
    [pc |-> "enter", traces |-> <<>>, words |-> {}, ptr |-> 0, len |-> 0,
     result |-> [ok |-> TRUE, frames |-> <<>>]]

(* The header words of a slice value: nil for the nil slice *)
SliceHeader(t, traces) ==
    [ptr |-> IF traces = <<>> THEN 0 ELSE t, len |-> Len(traces)]

(* The sequence a slice with these header words denotes; a slice with a
   length over a nil data pointer denotes none (ok is false) *)
SliceValue(ptr, len, readers) ==
    IF len = 0 THEN [ok |-> TRUE, frames |-> <<>>]
    ELSE IF ptr = 0 THEN [ok |-> FALSE, frames |-> <<>>]
    ELSE [ok |-> TRUE,
          frames |-> SubSeq(readers[ptr].traces, 1, Min(len, Len(readers[ptr].traces)))]

----------------------------------------------------------------------------
(* Plain errors with an Unwrap method, and the standard library's walk *)

(* fmt.Errorf(text + ": %w", cause): its Error() is fixed when it is made *)
wrapError(h, text, cause) ==
    [ZeroErr EXCEPT !.type = "wrapError", !.s = text \o ": " \o ErrError(h, cause),
                    !.cause = cause]

(* An error type of the caller with a settable cause:
   type node struct{ next error }; Unwrap returns next *)
node == [ZeroErr EXCEPT !.type = "node", !.s = "node"]

(* errors.Unwrap: the result of the value's Unwrap method, nil when it has none *)
ErrorsUnwrap(h, e) ==
    IF h[e].type \in {"err", "wrapError", "node"} THEN h[e].cause ELSE 0

(* Variant: only the top-level value is tested, the chain is not walked *)
ErrorsAsTopOnly(h, e) ==
    IF e # 0 /\ h[e].type = "err" THEN [ok |-> TRUE, target |-> e]
    ELSE [ok |-> FALSE, target |-> 0]

(* errors.As(err, &flooErr): the first value of the chain that is a FlooErr;
   *err is the only type with the methods of FlooErr *)
RECURSIVE ErrorsAs(_, _)
ErrorsAs(h, e) ==
    IF e = 0 THEN [ok |-> FALSE, target |-> 0]
    ELSE IF h[e].type = "err" THEN [ok |-> TRUE, target |-> e]
    ELSE ErrorsAs(h, ErrorsUnwrap(h, e))

----------------------------------------------------------------------------
(* The introspection utilities, package flooerr.  Error arguments and results
   are indices into the heap h of error values, 0 being nil; map results are
   indices into the heaps of maps, 0 being the nil map; a nil slice is the
   empty sequence. *)

AsFlooErr(h, e) ==
    IF e = 0 THEN [flooErr |-> 0, ok |-> FALSE]
    ELSE LET as == ErrorsAs(h, e)
         IN  IF as.ok THEN [flooErr |-> as.target, ok |-> TRUE]
             ELSE [flooErr |-> 0, ok |-> FALSE]

IsFlooErr(h, e) == AsFlooErr(h, e).ok

GetCode(h, e) ==
    LET found == AsFlooErr(h, e)
    IN  IF ~found.ok THEN "" ELSE h[found.flooErr].code

(* Code.String: string(code), a conversion between string types *)
CodeString(code) == code

GetCodeString(h, e) == CodeString(GetCode(h, e))

GetMessage(h, e) ==
    LET found == AsFlooErr(h, e)
    IN  IF ~found.ok THEN "" ELSE h[found.flooErr].message

GetContext(h, e) ==
    LET found == AsFlooErr(h, e)
    IN  IF ~found.ok THEN 0 ELSE h[found.flooErr].context

(* Reading a key that a map does not hold gives the zero value: nil *)
GetContextValue(h, ch, e, key) ==
    LET context == GetContext(h, e)
    IN  IF context = 0 THEN "nil"
        ELSE IF key \in DOMAIN ch[context] THEN ch[context][key] ELSE "nil"

GetSDC(h, e) ==
    LET found == AsFlooErr(h, e)
    IN  IF ~found.ok THEN 0 ELSE h[found.flooErr].sdc

GetSDCValue(h, sh, e, key) ==
    LET sdc == GetSDC(h, e)
    IN  IF sdc = 0 THEN ""
        ELSE IF key \in DOMAIN sh[sdc] THEN sh[sdc][key] ELSE ""

(* GetStackTrace: what it returns; its call of StackTrace also fills the cache *)
GetStackTrace(h, e) ==
    LET found == AsFlooErr(h, e)
    IN  IF ~found.ok THEN <<>> ELSE StackTraceCall(h[found.flooErr]).result

(* Variant: for an error that is not structured, its own cause is returned *)
GetCauseOfAny(h, e) ==
    LET found == AsFlooErr(h, e)
    IN  IF ~found.ok THEN (IF e = 0 THEN 0 ELSE ErrorsUnwrap(h, e))
        ELSE h[found.flooErr].cause

GetCause(h, e) ==
    LET found == AsFlooErr(h, e)
    IN  IF ~found.ok THEN 0 ELSE h[found.flooErr].cause

(* Variant: the empty code is never had *)
HasCodeNotEmpty(h, e, code) == code # "" /\ GetCodeString(h, e) = code

HasCode(h, e, code) == GetCodeString(h, e) = code

(* Variant: a key stored with a nil value is not had *)
HasContextKeyNotNil(h, ch, e, key) ==
    LET context == GetContext(h, e)
    IN  IF context = 0 THEN FALSE
        ELSE key \in DOMAIN ch[context] /\ ch[context][key] # "nil"

(* HasContextKey: _, exists := context[key] *)
HasContextKey(h, ch, e, key) ==
    LET context == GetContext(h, e)
    IN  IF context = 0 THEN FALSE ELSE key \in DOMAIN ch[context]

HasSDCKey(h, sh, e, key) ==
    LET sdc == GetSDC(h, e)
    IN  IF sdc = 0 THEN FALSE ELSE key \in DOMAIN sh[sdc]

(* The zero value of ErrorInfo *)
ZeroErrorInfo ==
    [Code |-> "", Message |-> "", ErrorMsg |-> "", Context |-> 0, SDC |-> 0,
     StackTrace |-> <<>>, Cause |-> 0, IsFlooErr |-> FALSE]

(* Variant: Message is the rendered message *)
ParseRendered(h, e) ==
    IF e = 0 THEN ZeroErrorInfo
    ELSE LET found == AsFlooErr(h, e)
             v == h[found.flooErr]
         IN  IF ~found.ok THEN [ZeroErrorInfo EXCEPT !.ErrorMsg = ErrError(h, e)]
             ELSE [Code |-> v.code, Message |-> v.errMessage,
                   ErrorMsg |-> ErrError(h, found.flooErr),
                   Context |-> v.context, SDC |-> v.sdc,
                   StackTrace |-> StackTraceCall(v).result,
                   Cause |-> v.cause, IsFlooErr |-> TRUE]

(* Variant: ErrorMsg is the rendered message, without the text of the cause *)
ParseOwnText(h, e) ==
    IF e = 0 THEN ZeroErrorInfo
    ELSE LET found == AsFlooErr(h, e)
             v == h[found.flooErr]
         IN  IF ~found.ok THEN [ZeroErrorInfo EXCEPT !.ErrorMsg = ErrError(h, e)]
             ELSE [Code |-> v.code, Message |-> v.message,
                   ErrorMsg |-> v.errMessage,
                   Context |-> v.context, SDC |-> v.sdc,
                   StackTrace |-> StackTraceCall(v).result,
                   Cause |-> v.cause, IsFlooErr |-> TRUE]

(* Parse: what it returns; its call of StackTrace also fills the cache *)
Parse(h, e) ==
    IF e = 0 THEN ZeroErrorInfo
    ELSE LET found == AsFlooErr(h, e)
             v == h[found.flooErr]
         IN  IF ~found.ok THEN [ZeroErrorInfo EXCEPT !.ErrorMsg = ErrError(h, e)]
             ELSE [Code |-> v.code, Message |-> v.message,
                   ErrorMsg |-> ErrError(h, found.flooErr),
                   Context |-> v.context, SDC |-> v.sdc,
                   StackTrace |-> StackTraceCall(v).result,
                   Cause |-> v.cause, IsFlooErr |-> TRUE]

(* UnwrapChain, lines 164-179: the loop from the link current, with the links
   collected so far *)
RECURSIVE UnwrapChainLoop(_, _, _)
UnwrapChainLoop(h, current, chain) ==
    IF current = 0 THEN chain
    ELSE LET found == AsFlooErr(h, current)
         IN  UnwrapChainLoop(h,
                 IF found.ok THEN h[found.flooErr].cause ELSE ErrorsUnwrap(h, current),
                 Append(chain, current))

UnwrapChain(h, e) ==
    IF e = 0 THEN <<>> ELSE UnwrapChainLoop(h, e, <<>>)

GetRootCause(h, e) ==
    LET chain == UnwrapChain(h, e)
    IN  IF Len(chain) = 0 THEN 0 ELSE chain[Len(chain)]

----------------------------------------------------------------------------
Init ==
    /\ buildErrFunc = "newErr"
    /\ props = <<>>
    /\ ctxHeap = <<>>
    /\ sdcHeap = <<>>
    /\ errs = <<errorsNew("disk full")>>
    /\ ret = NoCall
    /\ origin = <<NoOrigin>>
    /\ obs = <<[calls |-> 0, syms |-> 0, rets |-> {}]>>
    /\ ctxLog = <<>>
    /\ sdcLog = <<>>
    /\ setLog = <<>>
    /\ out = NoOut
    /\ race = NoRace
    /\ registered = "newErr"
    /\ walk = NoWalk

Create ==
    /\ ctxHeap' = Append(ctxHeap, EmptyMap)
    /\ sdcHeap' = Append(sdcHeap, EmptyMap)
    /\ props' = Append(props, create(Len(ctxHeap) + 1, Len(sdcHeap) + 1))
    /\ ctxLog' = Append(ctxLog, <<>>)
    /\ sdcLog' = Append(sdcLog, <<>>)
    /\ setLog' = Append(setLog, NoSets)
    /\ UNCHANGED <<buildErrFunc, errs, ret, origin, obs, out, race, registered, walk>>

WithMessage(r, message) ==
    /\ r \in 1..Len(props)
    /\ props' = [props EXCEPT ![r].message = message]
    /\ setLog' = [setLog EXCEPT ![r].message = <<message>>, ![r].returned = r]
    /\ UNCHANGED <<buildErrFunc, ctxHeap, sdcHeap, errs, ret, origin, obs, ctxLog,
                   sdcLog, out, race, registered, walk>>

(* Variant: setting the code also clears the message *)
WithCodeClearsMessage(r, code) ==
    /\ r \in 1..Len(props)
    /\ props' = [props EXCEPT ![r].code = code, ![r].message = ""]
    /\ setLog' = [setLog EXCEPT ![r].code = <<code>>, ![r].returned = r]
    /\ UNCHANGED <<buildErrFunc, ctxHeap, sdcHeap, errs, ret, origin, obs, ctxLog,
                   sdcLog, out, race, registered, walk>>

WithCode(r, code) ==
    /\ r \in 1..Len(props)
    /\ props' = [props EXCEPT ![r].code = code]
    /\ setLog' = [setLog EXCEPT ![r].code = <<code>>, ![r].returned = r]
    /\ UNCHANGED <<buildErrFunc, ctxHeap, sdcHeap, errs, ret, origin, obs, ctxLog,
                   sdcLog, out, race, registered, walk>>

WithStackTrace(r, enableStackTrace) ==
    /\ r \in 1..Len(props)
    /\ props' = [props EXCEPT ![r].withStackTrace = enableStackTrace]
    /\ setLog' = [setLog EXCEPT ![r].stack = <<enableStackTrace>>, ![r].returned = r]
    /\ UNCHANGED <<buildErrFunc, ctxHeap, sdcHeap, errs, ret, origin, obs, ctxLog,
                   sdcLog, out, race, registered, walk>>

(* An assignment to an entry of a nil map panics *)
WithContext(r, key, value) ==
    /\ r \in 1..Len(props)
    /\ ctxLog' = [ctxLog EXCEPT ![r] = Append(@, <<key, value>>)]
    /\ IF props[r].context = 0
       THEN /\ ret' = [NoCall EXCEPT !.outcome = "panic", !.r = r]
            /\ UNCHANGED <<ctxHeap, setLog>>
       ELSE /\ ctxHeap' = [ctxHeap EXCEPT ![props[r].context] = MapPut(@, key, value)]
            /\ setLog' = [setLog EXCEPT ![r].returned = r]
            /\ UNCHANGED ret
    /\ UNCHANGED <<buildErrFunc, props, sdcHeap, errs, origin, obs, sdcLog, out, race,
                   registered, walk>>

WithSDC(r, key, value) ==
    /\ r \in 1..Len(props)
    /\ sdcLog' = [sdcLog EXCEPT ![r] = Append(@, <<key, value>>)]
    /\ IF props[r].sdc = 0
       THEN /\ ret' = [NoCall EXCEPT !.outcome = "panic", !.r = r]
            /\ UNCHANGED <<sdcHeap, setLog>>
       ELSE /\ sdcHeap' = [sdcHeap EXCEPT ![props[r].sdc] = MapPut(@, key, value)]
            /\ setLog' = [setLog EXCEPT ![r].returned = r]
            /\ UNCHANGED ret
    /\ UNCHANGED <<buildErrFunc, props, ctxHeap, errs, origin, obs, ctxLog, out, race,
                   registered, walk>>

(* The frame of a standalone constructor: a builder is created and one With*
   call is made on it before it is returned; p is the builder returned,
   context its context map, log the WithContext calls made and sets the other
   setter calls made *)
Seeded(p, context, log, sets) ==
    /\ ctxHeap' = Append(ctxHeap, context)
    /\ sdcHeap' = Append(sdcHeap, EmptyMap)
    /\ props' = Append(props, p)
    /\ ctxLog' = Append(ctxLog, log)
    /\ sdcLog' = Append(sdcLog, <<>>)
    /\ setLog' = Append(setLog, [sets EXCEPT !.returned = Len(props) + 1])
    /\ UNCHANGED <<buildErrFunc, errs, ret, origin, obs, out, race, registered, walk>>

(* flooerr.Message(msg) *)
Message(msg) ==
    Seeded([create(Len(ctxHeap) + 1, Len(sdcHeap) + 1) EXCEPT !.message = msg],
           EmptyMap, <<>>,
           [NoSets EXCEPT !.message = <<msg>>, !.ctor = <<"Message", msg>>])

(* flooerr.Code(code) *)
Code(code) ==
    Seeded([create(Len(ctxHeap) + 1, Len(sdcHeap) + 1) EXCEPT !.code = CodeString(code)],
           EmptyMap, <<>>,
           [NoSets EXCEPT !.code = <<CodeString(code)>>, !.ctor = <<"Code", code>>])

(* flooerr.StackTrace() *)
StackTraceBuilder ==
    Seeded([create(Len(ctxHeap) + 1, Len(sdcHeap) + 1) EXCEPT !.withStackTrace = TRUE],
           EmptyMap, <<>>,
           [NoSets EXCEPT !.stack = <<TRUE>>, !.ctor = <<"StackTrace">>])

(* flooerr.Context(key, value) *)
Context(key, value) ==
    Seeded(create(Len(ctxHeap) + 1, Len(sdcHeap) + 1),
           MapPut(EmptyMap, key, value), << <<key, value>> >>,
           [NoSets EXCEPT !.ctor = <<"Context", key, value>>])

(* flooerr.SDC(key, value): value is a map[string]string, and the call made is
   WithContext(key, value) *)
SDC(key, value) ==
    Seeded(create(Len(ctxHeap) + 1, Len(sdcHeap) + 1),
           MapPut(EmptyMap, key, value), << <<key, value>> >>,
           [NoSets EXCEPT !.ctor = <<"SDC", key, value>>])

(* Variant: once a constructor other than the concrete one is registered, it
   stays *)
SetBuildErrFuncOnce(fn) ==
    /\ buildErrFunc' = IF buildErrFunc = "newErr" THEN fn ELSE buildErrFunc
    /\ registered' = fn
    /\ UNCHANGED <<props, ctxHeap, sdcHeap, errs, ret, origin, obs, ctxLog, sdcLog,
                   setLog, out, race, walk>>

(* SetBuildErrFunc(fn): registered is the argument of the last call *)
SetBuildErrFunc(fn) ==
    /\ buildErrFunc' = fn
    /\ registered' = fn
    /\ UNCHANGED <<props, ctxHeap, sdcHeap, errs, ret, origin, obs, ctxLog, sdcLog,
                   setLog, out, race, walk>>

(* Build and its aliases Error, Wrap, Errorf, Wrapf (via); message is the
   fallback, already formatted for Errorf and Wrapf; Errorf passes a nil
   cause.  The goroutine has d user frames above root. *)
Build(r, cause, message, via, d, root) ==
    /\ r \in 1..Len(props)
    /\ cause \in 0..Len(errs)
    /\ via = "Errorf" => cause = 0
    /\ LET p == props[r]
           stack == GoStack(via, d, root)
           cap == Capture(p, stack)
           call == [NoCall EXCEPT !.r = r, !.cause = cause, !.fn = buildErrFunc]
       IN  IF cap.panic
           THEN /\ ret' = [call EXCEPT !.outcome = "panic", !.stack = stack]
                /\ UNCHANGED <<errs, origin, obs>>
           ELSE LET res == BuildReturn(buildErrFunc, p,
                                       ResolveMessage(p.message, message), cause, cap.st)
                IN  CASE res.kind = "new" ->
                            /\ errs' = Append(errs, res.obj)
                            /\ origin' = Append(origin,
                                    [r |-> r, capture |-> p.withStackTrace,
                                     explicit |-> p.message, fallback |-> message,
                                     cause |-> cause, sets |-> setLog[r],
                                     frames |-> IF p.withStackTrace
                                                THEN d + Len(RootFrames(root))
                                                ELSE 0])
                            /\ obs' = Append(obs, [calls |-> 0, syms |-> 0, rets |-> {}])
                            /\ ret' = [call EXCEPT !.outcome = "value", !.val = Len(errs) + 1]
                      [] res.kind = "old" ->
                            /\ ret' = [call EXCEPT !.outcome = "value", !.val = res.val]
                            /\ UNCHANGED <<errs, origin, obs>>
                      [] OTHER ->
                            /\ ret' = [call EXCEPT !.outcome = "nil"]
                            /\ UNCHANGED <<errs, origin, obs>>
    /\ UNCHANGED <<buildErrFunc, props, ctxHeap, sdcHeap, ctxLog, sdcLog, setLog, out,
                   race, registered, walk>>

(* What a call of the StackTrace method of error value e does to the value's
   cache and to the history *)
StackTraceOn(e) ==
    LET c == StackTraceCall(errs[e])
    IN  /\ errs' = [errs EXCEPT ![e].stackTrace = c.cache]
        /\ obs' = [obs EXCEPT ![e] = [calls |-> @.calls + 1,
                                      syms |-> @.syms + (IF c.symbolized THEN 1 ELSE 0),
                                      rets |-> @.rets \cup {c.result}]]

(* e.StackTrace() on a structured error value *)
StackTrace(e) ==
    /\ e \in 1..Len(errs)
    /\ errs[e].type = "err"
    /\ StackTraceOn(e)
    /\ UNCHANGED <<buildErrFunc, props, ctxHeap, sdcHeap, ret, origin, ctxLog, sdcLog,
                   setLog, out, race, registered, walk>>

(* go e.StackTrace(): one more goroutine calls StackTrace on the error value
   that is read concurrently *)
GoStackTrace(e) ==
    /\ e \in 1..Len(errs)
    /\ errs[e].type = "err"
    /\ race.e \in {0, e}
    /\ race' = [race EXCEPT !.e = e, !.readers = Append(@, NewReader)]
    /\ UNCHANGED <<buildErrFunc, props, ctxHeap, sdcHeap, errs, ret, origin, obs,
                   ctxLog, sdcLog, setLog, out, registered, walk>>

(* The frame of a step of a goroutine inside StackTrace *)
RaceStep(t, reader) ==
    /\ race' = [race EXCEPT !.readers[t] = reader]
    /\ UNCHANGED <<buildErrFunc, props, ctxHeap, sdcHeap, errs, ret, origin, obs,
                   ctxLog, sdcLog, setLog, out, registered, walk>>

(* StackTrace, lines 39 and 42: goroutine t loads the length of the cache,
   then, the cache being empty, the length of the raw capture *)
StackTraceEnter(t) ==
    /\ t \in 1..Len(race.readers)
    /\ race.readers[t].pc = "enter"
    /\ LET me == race.readers[t]
       IN  IF race.len > 0 THEN RaceStep(t, [me EXCEPT !.pc = "load"])
           ELSE IF SliceLen(errs[race.e].stackTracePTR) = 0
           THEN RaceStep(t, [me EXCEPT !.pc = "done"])
           ELSE RaceStep(t, [me EXCEPT !.pc = "symbolize"])

(* StackTrace, line 40: goroutine t loads one more word of the cache, and
   returns the slice once it has both *)
StackTraceLoad(t, word) ==
    /\ t \in 1..Len(race.readers)
    /\ race.readers[t].pc = "load"
    /\ word \in {"ptr", "len"} \ race.readers[t].words
    /\ LET me == race.readers[t]
           now == [me EXCEPT !.words = @ \cup {word},
                             !.ptr = IF word = "ptr" THEN race.ptr ELSE @,
                             !.len = IF word = "len" THEN race.len ELSE @]
       IN  IF now.words = {"ptr", "len"}
           THEN RaceStep(t, [now EXCEPT !.pc = "done",
                                        !.result = SliceValue(now.ptr, now.len, race.readers)])
           ELSE RaceStep(t, now)

(* StackTrace, lines 46-59: goroutine t symbolizes the raw capture into its
   own traces *)
StackTraceSymbolize(t) ==
    /\ t \in 1..Len(race.readers)
    /\ race.readers[t].pc = "symbolize"
    /\ RaceStep(t, [race.readers[t] EXCEPT
                        !.pc = "store",
                        !.traces = SymbolizeLoop(errs[race.e].stackTracePTR.elems, 1, <<>>)])

(* StackTrace, lines 61-62: goroutine t stores one more word of its traces
   into the cache, and returns its traces once it has stored both *)
StackTraceStore(t, word) ==
    /\ t \in 1..Len(race.readers)
    /\ race.readers[t].pc = "store"
    /\ word \in {"ptr", "len"} \ race.readers[t].words
    /\ LET me == race.readers[t]
           hdr == SliceHeader(t, me.traces)
           now == [me EXCEPT !.words = @ \cup {word}]
       IN  /\ race' = [race EXCEPT
                    !.ptr = IF word = "ptr" THEN hdr.ptr ELSE @,
                    !.len = IF word = "len" THEN hdr.len ELSE @,
                    !.readers[t] =
                        IF now.words = {"ptr", "len"}
                        THEN [now EXCEPT !.pc = "done",
                                         !.result = [ok |-> TRUE, frames |-> me.traces]]
                        ELSE now]
           /\ UNCHANGED <<buildErrFunc, props, ctxHeap, sdcHeap, errs, ret, origin, obs,
                          ctxLog, sdcLog, setLog, out, registered, walk>>

(* The caller wraps an existing error in a plain error: fmt.Errorf("ctx: %w", cause) *)
FmtErrorf(cause) ==
    /\ cause \in 1..Len(errs)
    /\ errs' = Append(errs, wrapError(errs, "ctx", cause))
    /\ origin' = Append(origin, NoOrigin)
    /\ obs' = Append(obs, [calls |-> 0, syms |-> 0, rets |-> {}])
    /\ UNCHANGED <<buildErrFunc, props, ctxHeap, sdcHeap, ret, ctxLog, sdcLog, setLog,
                   out, race, registered, walk>>

(* The caller allocates an error of its own type: &node{} *)
NewNode ==
    /\ errs' = Append(errs, node)
    /\ origin' = Append(origin, NoOrigin)
    /\ obs' = Append(obs, [calls |-> 0, syms |-> 0, rets |-> {}])
    /\ UNCHANGED <<buildErrFunc, props, ctxHeap, sdcHeap, ret, ctxLog, sdcLog, setLog,
                   out, race, registered, walk>>

(* The caller sets the cause of one of its own errors: n.next = target *)
SetNext(n, target) ==
    /\ n \in 1..Len(errs)
    /\ errs[n].type = "node"
    /\ target \in 0..Len(errs)
    /\ errs' = [errs EXCEPT ![n].cause = target]
    /\ UNCHANGED <<buildErrFunc, props, ctxHeap, sdcHeap, ret, origin, obs, ctxLog,
                   sdcLog, setLog, out, race, registered, walk>>

(* The frame of a step of a call of UnwrapChain or GetRootCause *)
WalkStep(w) ==
    /\ walk' = w
    /\ UNCHANGED <<buildErrFunc, props, ctxHeap, sdcHeap, errs, ret, origin, obs,
                   ctxLog, sdcLog, setLog, out, race, registered>>

(* UnwrapChain(err), or GetRootCause(err), which starts by calling it: lines
   160-165, up to the loop test.  Once the call is done UnwrapChain returns
   the chain collected and GetRootCause its last element. *)
WalkEnter(op, e) ==
    /\ walk = NoWalk
    /\ e \in 0..Len(errs)
    /\ WalkStep(IF e = 0
                THEN [NoWalk EXCEPT !.op = op, !.pc = "done"]
                ELSE [NoWalk EXCEPT !.op = op, !.err = e, !.pc = "loop",
                                    !.current = e])

(* UnwrapChain, lines 167-170: the loop test, the append and the call of
   AsFlooErr, which enters errors.As on current; line 179 when current is nil *)
WalkLoop ==
    /\ walk.pc = "loop"
    /\ WalkStep(IF walk.current = 0
                THEN [walk EXCEPT !.pc = "done"]
                ELSE [walk EXCEPT !.pc = "as", !.target = walk.current,
                                  !.chain = Append(@, walk.current)])

(* Variant: errors.As tests the link it is given and does not walk its chain *)
WalkAsTopOnly ==
    /\ walk.pc = "as"
    /\ WalkStep(IF errs[walk.target].type = "err"
                THEN [walk EXCEPT !.pc = "loop", !.target = 0,
                                  !.current = errs[walk.target].cause]
                ELSE [walk EXCEPT !.pc = "loop", !.target = 0,
                                  !.current = ErrorsUnwrap(errs, walk.current)])

(* One turn of the loop of errors.As on the link target, and lines 171-176
   when it returns: found, current becomes the cause of the structured error
   found; the chain exhausted, current becomes errors.Unwrap(current) *)
WalkAs ==
    /\ walk.pc = "as"
    /\ WalkStep(IF walk.target = 0
                THEN [walk EXCEPT !.pc = "loop",
                                  !.current = ErrorsUnwrap(errs, walk.current)]
                ELSE IF errs[walk.target].type = "err"
                THEN [walk EXCEPT !.pc = "loop", !.target = 0,
                                  !.current = errs[walk.target].cause]
                ELSE [walk EXCEPT !.target = ErrorsUnwrap(errs, walk.target)])

(* The caller is done with the value returned *)
WalkReturn ==
    /\ walk.pc = "done"
    /\ WalkStep(NoWalk)

(* The frame of a utility that reads its argument and changes nothing *)
ReadOnly ==
    UNCHANGED <<buildErrFunc, props, ctxHeap, sdcHeap, errs, ret, origin, obs, ctxLog,
                sdcLog, setLog, race, registered, walk>>

(* AsFlooErr(err) *)
ReadAsFlooErr(e) ==
    /\ e \in 0..Len(errs)
    /\ out' = [NoOut EXCEPT !.op = "AsFlooErr", !.err = e, !.res = AsFlooErr(errs, e)]
    /\ ReadOnly

(* IsFlooErr(err) *)
ReadIsFlooErr(e) ==
    /\ e \in 0..Len(errs)
    /\ out' = [NoOut EXCEPT !.op = "IsFlooErr", !.err = e, !.res = IsFlooErr(errs, e)]
    /\ ReadOnly

(* UnwrapChain(err) *)
ReadUnwrapChain(e) ==
    /\ e \in 0..Len(errs)
    /\ out' = [NoOut EXCEPT !.op = "UnwrapChain", !.err = e, !.res = UnwrapChain(errs, e)]
    /\ ReadOnly

(* GetRootCause(err) *)
ReadGetRootCause(e) ==
    /\ e \in 0..Len(errs)
    /\ out' = [NoOut EXCEPT !.op = "GetRootCause", !.err = e,
                            !.res = GetRootCause(errs, e)]
    /\ ReadOnly

(* GetCode(err) *)
ReadGetCode(e) ==
    /\ e \in 0..Len(errs)
    /\ out' = [NoOut EXCEPT !.op = "GetCode", !.err = e,
                            !.res = GetCode(errs, e)]
    /\ ReadOnly

(* GetCodeString(err) *)
ReadGetCodeString(e) ==
    /\ e \in 0..Len(errs)
    /\ out' = [NoOut EXCEPT !.op = "GetCodeString", !.err = e,
                            !.res = GetCodeString(errs, e)]
    /\ ReadOnly

(* GetMessage(err) *)
ReadGetMessage(e) ==
    /\ e \in 0..Len(errs)
    /\ out' = [NoOut EXCEPT !.op = "GetMessage", !.err = e,
                            !.res = GetMessage(errs, e)]
    /\ ReadOnly

(* GetContext(err) *)
ReadGetContext(e) ==
    /\ e \in 0..Len(errs)
    /\ out' = [NoOut EXCEPT !.op = "GetContext", !.err = e,
                            !.res = GetContext(errs, e)]
    /\ ReadOnly

(* GetContextValue(err, key) *)
ReadGetContextValue(e, key) ==
    /\ e \in 0..Len(errs)
    /\ out' = [NoOut EXCEPT !.op = "GetContextValue", !.err = e, !.key = key,
                            !.res = GetContextValue(errs, ctxHeap, e, key)]
    /\ ReadOnly

(* GetSDC(err) *)
ReadGetSDC(e) ==
    /\ e \in 0..Len(errs)
    /\ out' = [NoOut EXCEPT !.op = "GetSDC", !.err = e,
                            !.res = GetSDC(errs, e)]
    /\ ReadOnly

(* GetSDCValue(err, key) *)
ReadGetSDCValue(e, key) ==
    /\ e \in 0..Len(errs)
    /\ out' = [NoOut EXCEPT !.op = "GetSDCValue", !.err = e, !.key = key,
                            !.res = GetSDCValue(errs, sdcHeap, e, key)]
    /\ ReadOnly

(* GetCause(err) *)
ReadGetCause(e) ==
    /\ e \in 0..Len(errs)
    /\ out' = [NoOut EXCEPT !.op = "GetCause", !.err = e,
                            !.res = GetCause(errs, e)]
    /\ ReadOnly

(* HasContextKey(err, key) *)
ReadHasContextKey(e, key) ==
    /\ e \in 0..Len(errs)
    /\ out' = [NoOut EXCEPT !.op = "HasContextKey", !.err = e, !.key = key,
                            !.res = HasContextKey(errs, ctxHeap, e, key)]
    /\ ReadOnly

(* HasSDCKey(err, key) *)
ReadHasSDCKey(e, key) ==
    /\ e \in 0..Len(errs)
    /\ out' = [NoOut EXCEPT !.op = "HasSDCKey", !.err = e, !.key = key,
                            !.res = HasSDCKey(errs, sdcHeap, e, key)]
    /\ ReadOnly

(* HasCode(err, code) *)
ReadHasCode(e, code) ==
    /\ e \in 0..Len(errs)
    /\ out' = [NoOut EXCEPT !.op = "HasCode", !.err = e, !.key = code,
                            !.res = HasCode(errs, e, code)]
    /\ ReadOnly

(* The frame of a utility that calls the StackTrace method of the structured
   error it finds, if any *)
ReadAndTrace(e) ==
    /\ IF AsFlooErr(errs, e).ok THEN StackTraceOn(AsFlooErr(errs, e).flooErr)
       ELSE UNCHANGED <<errs, obs>>
    /\ UNCHANGED <<buildErrFunc, props, ctxHeap, sdcHeap, ret, origin, ctxLog, sdcLog,
                   setLog, race, registered, walk>>

(* GetStackTrace(err) *)
ReadGetStackTrace(e) ==
    /\ e \in 0..Len(errs)
    /\ out' = [NoOut EXCEPT !.op = "GetStackTrace", !.err = e,
                            !.res = GetStackTrace(errs, e)]
    /\ ReadAndTrace(e)

(* Parse(err) *)
ReadParse(e) ==
    /\ e \in 0..Len(errs)
    /\ out' = [NoOut EXCEPT !.op = "Parse", !.err = e, !.res = Parse(errs, e)]
    /\ ReadAndTrace(e)

----------------------------------------------------------------------------
(* The number of builders and error values allocated so far is below n *)
Room(n) == Len(props) + Len(errs) < n

(* Messages and causes: builders are configured with WithMessage, the
   constructor is the registered one or absent, and errors are built over
   every existing value as cause, from a fixed, deep enough call site. *)
Next ==
    \/ Room(MaxObjects) /\ Create
    \/ \E r \in 1..Len(props), m \in Messages : WithMessage(r, m)
    \/ \E fn \in {"newErr", "nil"} : SetBuildErrFunc(fn)
    \/ \E r \in 1..Len(props), c \in 0..Len(errs), m \in Fallbacks :
            Room(MaxObjects) /\ Build(r, c, m, "Error", 3, "main")

Spec == Init /\ [][Next]_vars

(* Constructors: any constructor is registered, and errors are built with no
   cause or over the plain error. *)
NextFn ==
    \/ Room(MaxObjects) /\ Create
    \/ \E r \in 1..Len(props), m \in Messages : WithMessage(r, m)
    \/ \E fn \in BuildErrFuncs : SetBuildErrFunc(fn)
    \/ \E r \in 1..Len(props), c \in 0..1, m \in Fallbacks :
            Room(MaxObjects) /\ Build(r, c, m, "Wrap", 3, "main")

SpecFn == Init /\ [][NextFn]_vars

(* Stacks: errors are built through every entry point from call sites of
   every depth, on the main goroutine or on another one, with the capture on
   or off, and their stack traces are read. *)
NextStack ==
    \/ Room(MaxStackObjects) /\ Create
    \/ \E r \in 1..Len(props), b \in BOOLEAN : WithStackTrace(r, b)
    \/ \E fn \in {"newErr", "nil"} : SetBuildErrFunc(fn)
    \/ \E r \in 1..Len(props), c \in 0..1, via \in Vias,
          d \in 1..MaxUserFrames, root \in Roots :
            Room(MaxStackObjects) /\ Build(r, c, "X", via, d, root)
    \/ \E e \in 1..Len(errs) : obs[e].calls < MaxStackCalls /\ StackTrace(e)

SpecStack == Init /\ [][NextStack]_vars

(* Deep stacks: errors are built, capture on or off, from call sites whose
   stack is about as deep as the capture buffer, and their stack traces are
   read. *)
DeepFrames == (depth - 4)..MaxDeepFrames

NextDeep ==
    \/ Room(MaxDeepObjects) /\ Create
    \/ \E r \in 1..Len(props), b \in BOOLEAN : WithStackTrace(r, b)
    \/ \E r \in 1..Len(props), via \in {"Build", "Error"}, d \in DeepFrames :
            Room(MaxDeepObjects) /\ Build(r, 0, "X", via, d, "main")
    \/ \E e \in 1..Len(errs) : obs[e].calls < MaxDeepCalls /\ StackTrace(e)

SpecDeep == Init /\ [][NextDeep]_vars

(* Bags: builders are filled with WithContext and WithSDC, before and after
   errors are built from them. *)
RECURSIVE SumLen(_)
SumLen(logs) == IF logs = <<>> THEN 0 ELSE Len(Head(logs)) + SumLen(Tail(logs))

Puts == SumLen(ctxLog) + SumLen(sdcLog)

NextBags ==
    \/ Room(MaxBagObjects) /\ Create
    \/ \E r \in 1..Len(props), k \in Keys, v \in Values :
            Puts < MaxPuts /\ WithContext(r, k, v)
    \/ \E r \in 1..Len(props), k \in SDCKeys, v \in SDCValues :
            Puts < MaxPuts /\ WithSDC(r, k, v)
    \/ \E r \in 1..Len(props) :
            Room(MaxBagObjects) /\ Build(r, 0, "X", "Error", 3, "main")

SpecBags == Init /\ [][NextBags]_vars

(* Reuse: every setter is called on builders before and after errors are
   built from them. *)
NextReuse ==
    \/ Room(MaxBagObjects) /\ Create
    \/ \E r \in 1..Len(props), m \in Messages : WithMessage(r, m)
    \/ \E r \in 1..Len(props), c \in Codes : WithCode(r, c)
    \/ \E r \in 1..Len(props), b \in BOOLEAN : WithStackTrace(r, b)
    \/ \E r \in 1..Len(props), v \in Values :
            Puts < MaxPuts /\ WithContext(r, "host", v)
    \/ \E r \in 1..Len(props), v \in SDCValues :
            Puts < MaxPuts /\ WithSDC(r, "trace_id", v)
    \/ \E r \in 1..Len(props), c \in 0..1 :
            Room(MaxBagObjects) /\ Build(r, c, "X", "Error", 3, "main")

SpecReuse == Init /\ [][NextReuse]_vars

(* Setters: every setter is called on builders any number of times, in any
   order, before and after errors are built from them. *)
NextSet ==
    \/ Room(MaxSetObjects) /\ Create
    \/ \E r \in 1..Len(props), m \in Messages : WithMessage(r, m)
    \/ \E r \in 1..Len(props) : WithCode(r, "DB_ERR")
    \/ \E r \in 1..Len(props), b \in BOOLEAN : WithStackTrace(r, b)
    \/ \E r \in 1..Len(props) : Puts < MaxSetPuts /\ WithContext(r, "host", "localhost")
    \/ \E r \in 1..Len(props) : Puts < MaxSetPuts /\ WithSDC(r, "trace_id", "t1")
    \/ \E r \in 1..Len(props) : Room(MaxSetObjects) /\ Build(r, 0, "X", "Error", 3, "main")

SpecSet == Init /\ [][NextSet]_vars

(* Concurrent readers: an error is built from a call site of some depth, and
   goroutines call its StackTrace method at the same time, their loads and
   stores of the cache interleaved word by word. *)
NextRace ==
    \/ Room(MaxRaceObjects) /\ Create
    \/ \E r \in 1..Len(props), d \in 1..MaxUserFrames :
            Room(MaxRaceObjects) /\ Build(r, 0, "X", "Error", d, "main")
    \/ \E e \in 1..Len(errs) : Len(race.readers) < MaxReaders /\ GoStackTrace(e)
    \/ \E t \in 1..Len(race.readers) : StackTraceEnter(t)
    \/ \E t \in 1..Len(race.readers), w \in {"ptr", "len"} : StackTraceLoad(t, w)
    \/ \E t \in 1..Len(race.readers) : StackTraceSymbolize(t)
    \/ \E t \in 1..Len(race.readers), w \in {"ptr", "len"} : StackTraceStore(t, w)

SpecRace == Init /\ [][NextRace]_vars

(* Chains: structured errors and plain wrapping errors are stacked over every
   existing value in any order, and the chain utilities are called on nil and
   on every value. *)
NextChain ==
    \/ Room(MaxChainObjects) /\ Create
    \/ \E r \in 1..Len(props), c \in 0..Len(errs) :
            Room(MaxChainObjects) /\ Build(r, c, "X", "Wrap", 3, "main")
    \/ \E c \in 1..Len(errs) : Room(MaxChainObjects) /\ FmtErrorf(c)
    \/ \E e \in 0..Len(errs) : ReadAsFlooErr(e)
    \/ \E e \in 0..Len(errs) : ReadIsFlooErr(e)
    \/ \E e \in 0..Len(errs) : ReadUnwrapChain(e)
    \/ \E e \in 0..Len(errs) : ReadGetRootCause(e)

SpecChain == Init /\ [][NextChain]_vars

(* The caller is done with the result of the last utility call *)
Discard ==
    /\ out # NoOut
    /\ out' = NoOut
    /\ ReadOnly

(* The structured error a utility finds in e has room for one more call of
   its StackTrace method *)
CanTrace(e) ==
    AsFlooErr(errs, e).ok => obs[AsFlooErr(errs, e).flooErr].calls < MaxReadCalls

(* Reads: a builder is given a code, a context entry and an SDC entry, errors
   are built with no cause or over the plain error, errors are wrapped in
   plain errors, and every extraction utility is called on nil and on every
   value; the caller is done with a result before it goes on. *)
NextRead ==
    \/ /\ out = NoOut
       /\ \/ Room(MaxReadObjects) /\ Create
          \/ \E r \in 1..Len(props) : WithCode(r, "DB_ERR")
          \/ \E r \in 1..Len(props) :
                Puts < MaxReadPuts /\ WithContext(r, "host", "localhost")
          \/ \E r \in 1..Len(props) : Puts < MaxReadPuts /\ WithSDC(r, "trace_id", "t1")
          \/ \E r \in 1..Len(props), c \in 0..1 :
                Room(MaxReadObjects) /\ Build(r, c, "X", "Wrap", 3, "main")
          \/ \E c \in 1..Len(errs) : Room(MaxReadObjects) /\ FmtErrorf(c)
          \/ \E e \in 0..Len(errs) : CanTrace(e) /\ ReadParse(e)
          \/ \E e \in 0..Len(errs) : ReadGetCode(e)
          \/ \E e \in 0..Len(errs) : ReadGetCodeString(e)
          \/ \E e \in 0..Len(errs) : ReadGetMessage(e)
          \/ \E e \in 0..Len(errs) : ReadGetContext(e)
          \/ \E e \in 0..Len(errs), k \in Keys : ReadGetContextValue(e, k)
          \/ \E e \in 0..Len(errs) : ReadGetSDC(e)
          \/ \E e \in 0..Len(errs), k \in SDCKeys \cup {"host"} : ReadGetSDCValue(e, k)
          \/ \E e \in 0..Len(errs) : CanTrace(e) /\ ReadGetStackTrace(e)
          \/ \E e \in 0..Len(errs) : ReadGetCause(e)
          \/ \E e \in 0..Len(errs), c \in Codes : ReadHasCode(e, c)
    \/ Discard

SpecRead == Init /\ [][NextRead]_vars

(* Keys: a builder is given context and SDC entries, nil and empty values
   included, errors are built and wrapped in plain errors, and the key
   predicates are asked about stored and absent keys on nil and on every
   value. *)
NextKeys ==
    \/ /\ out = NoOut
       /\ \/ Room(MaxKeyObjects) /\ Create
          \/ \E r \in 1..Len(props), v \in Values :
                Puts < MaxKeyPuts /\ WithContext(r, "host", v)
          \/ \E r \in 1..Len(props), v \in SDCValues :
                Puts < MaxKeyPuts /\ WithSDC(r, "trace_id", v)
          \/ \E r \in 1..Len(props), c \in 0..1 :
                Room(MaxKeyObjects) /\ Build(r, c, "X", "Wrap", 3, "main")
          \/ \E c \in 1..Len(errs) : Room(MaxKeyObjects) /\ FmtErrorf(c)
          \/ \E e \in 0..Len(errs), k \in Keys : ReadHasContextKey(e, k)
          \/ \E e \in 0..Len(errs), k \in SDCKeys \cup {"span_id"} : ReadHasSDCKey(e, k)
    \/ Discard

SpecKeys == Init /\ [][NextKeys]_vars

(* Texts: errors are built with no cause or over the plain error, errors are
   wrapped in plain errors, and Parse is called on nil and on every value. *)
NextText ==
    \/ /\ out = NoOut
       /\ \/ Room(MaxTextObjects) /\ Create
          \/ \E r \in 1..Len(props), m \in Messages : WithMessage(r, m)
          \/ \E r \in 1..Len(props), c \in 0..1 :
                Room(MaxTextObjects) /\ Build(r, c, "X", "Wrap", 3, "main")
          \/ \E c \in 1..Len(errs) : Room(MaxTextObjects) /\ FmtErrorf(c)
          \/ \E e \in 0..Len(errs) : CanTrace(e) /\ ReadParse(e)
    \/ Discard

SpecText == Init /\ [][NextText]_vars

(* Standalone constructors: builders are made by Create and by each
   standalone constructor, and errors are built from them. *)
SDCMaps == {[k \in {"trace_id"} |-> "t1"]}

NextCtor ==
    \/ Room(MaxCtorObjects) /\ Create
    \/ \E m \in Messages : Room(MaxCtorObjects) /\ Message(m)
    \/ \E c \in Codes : Room(MaxCtorObjects) /\ Code(c)
    \/ Room(MaxCtorObjects) /\ StackTraceBuilder
    \/ \E k \in Keys, v \in Values : Room(MaxCtorObjects) /\ Context(k, v)
    \/ \E k \in SDCKeys, v \in SDCMaps : Room(MaxCtorObjects) /\ SDC(k, v)
    \/ \E r \in 1..Len(props) :
            Room(MaxCtorObjects) /\ Build(r, 0, "X", "Error", 3, "main")

SpecCtor == Init /\ [][NextCtor]_vars

(* Cycles: the caller allocates errors of its own type and sets their
   causes, to nil and to any other value, errors are built over every value,
   and UnwrapChain and GetRootCause are called on nil and on every value,
   step by step; the chain collected is capped by the memory. *)
NextCycle ==
    \/ /\ walk = NoWalk
       /\ \/ Room(MaxCycleObjects) /\ Create
          \/ Room(MaxCycleObjects) /\ NewNode
          \/ \E n \in 1..Len(errs), t \in 0..Len(errs) : t # n /\ SetNext(n, t)
          \/ \E r \in 1..Len(props), c \in 0..Len(errs) :
                Room(MaxCycleObjects) /\ Build(r, c, "X", "Wrap", 3, "main")
          \/ \E op \in {"UnwrapChain", "GetRootCause"}, e \in 0..Len(errs) :
                WalkEnter(op, e)
    \/ Len(walk.chain) < MaxWalkLen /\ WalkLoop
    \/ WalkAs
    \/ WalkReturn

SpecCycle == Init /\ [][NextCycle]_vars

(* A call that has started goes on: it is a goroutine that runs *)
SpecCycleFair ==
    /\ SpecCycle
    /\ WF_vars(Len(walk.chain) < MaxWalkLen /\ WalkLoop)
    /\ WF_vars(WalkAs)

----------------------------------------------------------------------------
(* Properties *)

ErrIds == 1..Len(errs)

(* The error values made by the library's own constructors *)
Built == {e \in ErrIds : origin[e].r # 0 /\ errs[e].type \in {"err", "simpleError"}}

Structured == {e \in ErrIds : errs[e].type = "err"}

(* renderedMessage of the Build call that made e, from the call's inputs *)
Rendered(e) ==
    IF origin[e].explicit # "" THEN origin[e].explicit ELSE origin[e].fallback

(* C1: Build(nil, X) yields an error whose Error() is X when the builder's
   message is empty, and the builder's message Y when it is not, whatever X *)
C1_MessageResolution ==
    \A e \in Built :
        origin[e].cause = 0 =>
            /\ origin[e].explicit = "" => ErrError(errs, e) = origin[e].fallback
            /\ origin[e].explicit # "" => ErrError(errs, e) = origin[e].explicit

C1_Witness ==
    \E e1, e2 \in Built :
        /\ origin[e1].cause = 0 /\ origin[e1].explicit = "" /\ origin[e1].fallback = "W"
        /\ origin[e2].cause = 0 /\ origin[e2].explicit = "Y" /\ origin[e2].fallback = "X"
        /\ ErrError(errs, e2) = "Y"

(* C2: Error() of a structured error is its rendered message, followed, when
   the cause is not nil, by "; caused by: " and the cause's Error(); at every
   level of a chain *)
C2_ErrorFormat ==
    \A e \in Structured :
        /\ errs[e].cause # 0 =>
                ErrError(errs, e) =
                    Rendered(e) \o "; caused by: " \o ErrError(errs, errs[e].cause)
        /\ errs[e].cause = 0 => ErrError(errs, e) = Rendered(e)

C2_Witness ==
    \E e \in Structured :
        /\ errs[e].cause \in Structured
        /\ errs[errs[e].cause].cause = 1
        /\ ErrError(errs, e) = "Y; caused by: W; caused by: disk full"

(* C3: Build and its aliases return normally, whatever the builder, the
   cause, the constructor and the depth of the call stack *)
C3_BuildNeverPanics == ret.outcome # "panic"

(* C4, as stated: whatever constructor is registered, custom ones included,
   the value Build returns is not nil *)
C4_NeverNilAnyConstructor == ret.outcome # "nil"

(* C4, amended: Build returns a non-nil error with the concrete constructor,
   with no constructor, and with a custom constructor that returns a non-nil
   error; it returns nil only when the registered constructor returned nil *)
C4_NeverNilUnlessConstructorNil ==
    /\ ret.outcome = "nil" => ret.fn = "customNil"
    /\ ret.outcome = "value" => ret.val \in ErrIds

C4_Witness ==
    /\ ret.fn = "nil" /\ ret.cause = 0 /\ ret.outcome = "value"
    /\ errs[ret.val].type = "simpleError"
    /\ buildErrFunc = "newErr"

(* C5: with no constructor registered, Build returns the cause itself when it
   is not nil, and otherwise a minimal error whose Error() is the rendered
   message *)
C5_DegradedFallback ==
    (ret.fn = "nil" /\ ret.outcome # "panic") =>
        /\ ret.outcome = "value"
        /\ ret.cause # 0 => ret.val = ret.cause
        /\ ret.cause = 0 =>
                /\ errs[ret.val].type = "simpleError"
                /\ origin[ret.val].r = ret.r
                /\ ErrError(errs, ret.val) = Rendered(ret.val)

C5_Witness ==
    /\ ret.fn = "nil" /\ ret.outcome = "value" /\ ret.cause = 1 /\ ret.val = 1
    /\ \E e \in ErrIds : errs[e].type = "simpleError" /\ ErrError(errs, e) = "Y"

(* What the accessors of error value e answer *)
Accessors(e) ==
    [Context |-> ErrContext(ctxHeap, errs[e]), SDC |-> ErrSDC(sdcHeap, errs[e]),
     Code |-> errs[e].code, Message |-> errs[e].message,
     Error |-> ErrError(errs, e), Unwrap |-> errs[e].cause]

(* C6: no step changes what the accessors of an already built error answer *)
C6_Immutable ==
    [][\A e \in Structured : Accessors(e)' = Accessors(e)]_vars

(* The value of the last call made with key k, in a log of <<key, value>> calls *)
LogKeys(log) == {log[i][1] : i \in DOMAIN log}

LastValue(log, k) ==
    LET last == CHOOSE i \in DOMAIN log :
                    /\ log[i][1] = k
                    /\ \A j \in DOMAIN log : log[j][1] = k => j <= i
    IN  log[last][2]

IsLastWrites(m, log) ==
    /\ DOMAIN m = LogKeys(log)
    /\ \A k \in LogKeys(log) : m[k] = LastValue(log, k)
    /\ MapLen(m) = Cardinality(LogKeys(log))

(* C7: Context() and SDC() of a built error map each key to the value of the
   last WithContext (resp. WithSDC) call made with it on its builder, and
   have as many entries as distinct keys were used *)
C7_LastWriteWins ==
    \A e \in Structured :
        /\ IsLastWrites(ErrContext(ctxHeap, errs[e]), ctxLog[origin[e].r])
        /\ IsLastWrites(ErrSDC(sdcHeap, errs[e]), sdcLog[origin[e].r])

C7_Witness ==
    \E e \in Structured :
        /\ ctxLog[origin[e].r] = <<(<<"host", "localhost">>), (<<"host", "nil">>)>>
        /\ ErrContext(ctxHeap, errs[e]) = [k \in {"host"} |-> "nil"]
        /\ sdcLog[origin[e].r] = <<(<<"trace_id", "t1">>)>>
        /\ ErrSDC(sdcHeap, errs[e]) = [k \in {"trace_id"} |-> "t1"]

(* C8: the maps of a builder are never nil, nor are Context() and SDC() of an
   error built through it; with no WithContext (resp. WithSDC) call they are
   empty *)
C8_MapsNeverNil ==
    /\ \A r \in 1..Len(props) : props[r].context # 0 /\ props[r].sdc # 0
    /\ \A e \in Structured :
            /\ errs[e].context # 0 /\ errs[e].sdc # 0
            /\ ctxLog[origin[e].r] = <<>> => MapLen(ErrContext(ctxHeap, errs[e])) = 0
            /\ sdcLog[origin[e].r] = <<>> => MapLen(ErrSDC(sdcHeap, errs[e])) = 0

C8_Witness ==
    \E e \in Structured :
        /\ ctxLog[origin[e].r] = <<>> /\ sdcLog[origin[e].r] = <<>>
        /\ errs[e].context # 0 /\ ErrContext(ctxHeap, errs[e]) = EmptyMap

(* C9: all StackTrace() calls on one error value return equal sequences *)
C9_StackTraceIdempotent ==
    \A e \in ErrIds : Cardinality(obs[e].rets) <= 1

C9_Witness ==
    \E e \in Structured :
        /\ obs[e].calls >= 2
        /\ \E t \in obs[e].rets : Len(t) >= 2

(* C10: an error built with the capture off has no raw capture and always
   answers an empty sequence; an error built with the capture on, holding a
   raw capture of at least one frame, has its cache filled by the first
   StackTrace() call, and never symbolizes twice *)
C10_StackStateMachine ==
    \A e \in Structured :
        /\ ~origin[e].capture =>
                /\ errs[e].stackTracePTR.isnil
                /\ obs[e].rets \subseteq {<<>>}
        /\ (origin[e].capture /\ SliceLen(errs[e].stackTracePTR) > 0
                /\ obs[e].calls >= 1) =>
                /\ Len(errs[e].stackTrace) > 0
                /\ obs[e].syms = 1

(* The frames of the builder itself and of what it calls *)
BuilderFrames ==
    {"runtime.Callers", "internal.callers"} \cup {"ErrProps." \o via : via \in Vias}

(* C11: the first frame captured by a terminal call is the function holding
   the call (main.f1), and no captured frame is one of the builder's own,
   whether the call was Build itself or Error, Wrap, Errorf or Wrapf *)
C11_CaptureStartsAtCallSite ==
    \A e \in Structured :
        (origin[e].capture /\ SliceLen(errs[e].stackTracePTR) > 0) =>
            /\ errs[e].stackTracePTR.elems[1] = "main.f1"
            /\ \A i \in 1..SliceLen(errs[e].stackTracePTR) :
                    errs[e].stackTracePTR.elems[i] \notin BuilderFrames

(* The cause chain of error value e, outermost first: each link is followed
   by what its own Unwrap method returns, up to the link that has no Unwrap
   method or returns nil *)
RECURSIVE CauseChain(_)
CauseChain(e) ==
    IF e = 0 THEN <<>>
    ELSE <<e>> \o CauseChain(IF errs[e].type \in {"err", "wrapError"}
                             THEN errs[e].cause ELSE 0)

(* The positions of the structured errors in a chain *)
StructuredAt(chain) == {i \in DOMAIN chain : errs[chain[i]].type = "err"}

(* C12: AsFlooErr answers not found for nil and for a chain without a
   structured error, and otherwise found with the outermost structured error
   of the chain, also below plain wrapping errors; IsFlooErr answers the found
   flag *)
C12_AsFlooErrFirstInChain ==
    LET chain == CauseChain(out.err)
        at == StructuredAt(chain)
    IN  /\ out.op = "AsFlooErr" =>
                /\ at = {} => out.res = [flooErr |-> 0, ok |-> FALSE]
                /\ at # {} =>
                        /\ out.res.ok
                        /\ \E i \in at : /\ out.res.flooErr = chain[i]
                                          /\ \A j \in at : i <= j
        /\ out.op = "IsFlooErr" => out.res = (at # {})

C12_Witness ==
    /\ out.op = "AsFlooErr"
    /\ out.err # 0
    /\ errs[out.err].type = "wrapError"
    /\ errs[errs[out.err].cause].type = "wrapError"
    /\ out.res.ok
    /\ out.res.flooErr = errs[errs[out.err].cause].cause
    /\ errs[out.res.flooErr].cause # 0

(* C15: UnwrapChain answers the empty sequence for nil and otherwise the whole
   cause chain: every link once, the argument first, each further element the
   direct cause of the one before it, the root cause last *)
C15_UnwrapChainAllLinks ==
    out.op = "UnwrapChain" =>
        /\ out.res = CauseChain(out.err)
        /\ Len(out.res) = Len(CauseChain(out.err))

(* C16: GetRootCause answers nil exactly for nil, and otherwise the last
   element of UnwrapChain, which has no further cause: its own Unwrap method,
   if it has one, returns nil *)
C16_RootCauseIsChainEnd ==
    out.op = "GetRootCause" =>
        /\ out.res = 0 <=> out.err = 0
        /\ out.err # 0 =>
                /\ out.res = UnwrapChain(errs, out.err)[Len(UnwrapChain(errs, out.err))]
                /\ ErrorsUnwrap(errs, out.res) = 0

(* The outermost structured error of the cause chain of e, 0 when there is none *)
Matched(e) ==
    LET chain == CauseChain(e)
        at == StructuredAt(chain)
    IN  IF at = {} THEN 0
        ELSE chain[CHOOSE i \in at : \A j \in at : i <= j]

(* C13: Parse answers the zero ErrorInfo for nil; for an error with no
   structured error in its chain only ErrorMsg, the error's Error(), is set;
   for a matching error IsFlooErr is true and Code, Message, Context, SDC,
   StackTrace and Cause are what the accessors of the matched structured
   error answer *)
C13_ParseSnapshot ==
    out.op = "Parse" =>
        LET m == Matched(out.err)
            none == [Code |-> "", Message |-> "", ErrorMsg |-> "", Context |-> 0,
                     SDC |-> 0, StackTrace |-> <<>>, Cause |-> 0, IsFlooErr |-> FALSE]
        IN  /\ out.err = 0 => out.res = none
            /\ (out.err # 0 /\ m = 0) =>
                    out.res = [none EXCEPT !.ErrorMsg = ErrError(errs, out.err)]
            /\ m # 0 =>
                    /\ out.res.IsFlooErr
                    /\ out.res.Code = Accessors(m).Code
                    /\ out.res.Message = Accessors(m).Message
                    /\ out.res.Message = IF origin[m].sets.message = <<>> THEN ""
                                         ELSE origin[m].sets.message[1]
                    /\ out.res.Context # 0 /\ ctxHeap[out.res.Context] = Accessors(m).Context
                    /\ out.res.SDC # 0 /\ sdcHeap[out.res.SDC] = Accessors(m).SDC
                    /\ out.res.StackTrace = StackTraceCall(errs[m]).result
                    /\ out.res.Cause = Accessors(m).Unwrap

C13_Witness ==
    /\ out.op = "Parse"
    /\ out.err # 0
    /\ out.res.IsFlooErr
    /\ out.res.Code = "DB_ERR"
    /\ out.res.Message = ""
    /\ ctxHeap[out.res.Context] = [k \in {"host"} |-> "localhost"]
    /\ sdcHeap[out.res.SDC] = [k \in {"trace_id"} |-> "t1"]
    /\ out.res.Cause # 0
    /\ ErrError(errs, out.res.Cause) = "disk full"
    /\ Len(out.res.StackTrace) > 0

(* C14: for nil and for an error with no structured error in its chain every
   extraction utility answers the zero value of its type (empty code, empty
   string, nil map, nil slice, nil error, nil value); for a matching error it
   answers the field of the matched structured error, and the keyed ones the
   zero value when the key is absent *)
C14_ZeroOrField ==
    LET m == Matched(out.err)
    IN  /\ out.op \in {"GetCode", "GetCodeString"} =>
                out.res = IF m = 0 THEN "" ELSE errs[m].code
        /\ out.op = "GetMessage" => out.res = IF m = 0 THEN "" ELSE errs[m].message
        /\ out.op = "GetContext" =>
                /\ out.res = IF m = 0 THEN 0 ELSE errs[m].context
                /\ m # 0 => out.res # 0
        /\ out.op = "GetSDC" =>
                /\ out.res = IF m = 0 THEN 0 ELSE errs[m].sdc
                /\ m # 0 => out.res # 0
        /\ out.op = "GetStackTrace" =>
                out.res = IF m = 0 THEN <<>> ELSE StackTraceCall(errs[m]).result
        /\ out.op = "GetCause" => out.res = IF m = 0 THEN 0 ELSE errs[m].cause
        /\ out.op = "GetContextValue" =>
                out.res = IF m # 0 /\ out.key \in DOMAIN Accessors(m).Context
                          THEN Accessors(m).Context[out.key] ELSE "nil"
        /\ out.op = "GetSDCValue" =>
                out.res = IF m # 0 /\ out.key \in DOMAIN Accessors(m).SDC
                          THEN Accessors(m).SDC[out.key] ELSE ""

C14_Witness ==
    /\ out.op = "GetContextValue"
    /\ out.err # 0
    /\ errs[out.err].type = "err"
    /\ out.key = "port"
    /\ out.res = "nil"
    /\ GetContextValue(errs, ctxHeap, out.err, "host") = "localhost"
    /\ GetSDCValue(errs, sdcHeap, out.err, "trace_id") = "t1"
    /\ GetCause(errs, out.err) = 1
    /\ GetContext(errs, 1) = 0
    /\ GetContextValue(errs, ctxHeap, 1, "host") = "nil"

(* C18: HasCode(err, X) is GetCodeString(err) = X; HasCode(err, "") holds for
   nil, for an error with no structured error in its chain and for a
   structured error built with no WithCode call *)
C18_HasCodeIffCodeString ==
    out.op = "HasCode" =>
        /\ out.res <=> (GetCodeString(errs, out.err) = out.key)
        /\ (/\ out.key = ""
            /\ \/ Matched(out.err) = 0
               \/ /\ errs[out.err].type = "err"
                  /\ origin[out.err].sets.code = <<>>) => out.res

C18_Witness ==
    /\ out.op = "HasCode"
    /\ out.err # 0
    /\ errs[out.err].type = "err"
    /\ origin[out.err].sets.code = <<>>
    /\ out.key = ""
    /\ out.res
    /\ ~HasCode(errs, out.err, "DB_ERR")
    /\ HasCode(errs, 0, "") /\ HasCode(errs, 1, "")

(* The last argument a setter was called with, none when it was never called *)
LastArg(calls, none) == IF calls = <<>> THEN none ELSE calls[1]

(* C17: Message() of a built error is the last argument WithMessage got before
   the Build call, empty when it got none, whatever the fallback; Error() of
   an error with an empty Message() and no cause is the fallback *)
C17_MessageIsExplicit ==
    \A e \in Structured :
        /\ Accessors(e).Message = LastArg(origin[e].sets.message, "")
        /\ (Accessors(e).Message = "" /\ origin[e].cause = 0) =>
                Accessors(e).Error = origin[e].fallback

C17_Witness ==
    \E e1, e2 \in Structured :
        /\ origin[e1].sets.message = <<"">>
        /\ Accessors(e1).Message = "" /\ Accessors(e1).Error = "X"
        /\ origin[e2].sets.message = <<"Y">> /\ origin[e2].fallback = "W"
        /\ Accessors(e2).Message = "Y"

(* C19: a new builder captures the stack and has empty maps, no message and
   no code; every With* call returns its receiver and changes only its own
   field, so that each field of a builder is what the last call of its own
   setter made it; a built error has the code and the message of the last
   WithCode and WithMessage calls before the Build call, and a captured stack
   exactly when the last WithStackTrace argument was true or there was none *)
C19_FluentSetters ==
    /\ \A r \in 1..Len(props) :
            /\ setLog[r].returned \in {0, r}
            /\ (setLog[r] # NoSets \/ ctxLog[r] # <<>> \/ sdcLog[r] # <<>>) =>
                    setLog[r].returned = r
            /\ props[r].message = LastArg(setLog[r].message, "")
            /\ props[r].code = LastArg(setLog[r].code, "")
            /\ props[r].withStackTrace = LastArg(setLog[r].stack, TRUE)
            /\ IsLastWrites(ctxHeap[props[r].context], ctxLog[r])
            /\ IsLastWrites(sdcHeap[props[r].sdc], sdcLog[r])
    /\ \A e \in Structured :
            /\ Accessors(e).Code = LastArg(origin[e].sets.code, "")
            /\ Accessors(e).Message = LastArg(origin[e].sets.message, "")
            /\ ~errs[e].stackTracePTR.isnil <=> LastArg(origin[e].sets.stack, TRUE)

C19_Witness ==
    \E e \in Structured :
        /\ origin[e].sets =
                [message |-> <<"Y">>, code |-> <<"DB_ERR">>, stack |-> <<FALSE>>,
                 returned |-> origin[e].r, ctor |-> <<>>]
        /\ Accessors(e).Code = "DB_ERR" /\ Accessors(e).Message = "Y"
        /\ errs[e].stackTracePTR.isnil
        /\ props[origin[e].r].withStackTrace
        /\ ctxLog[origin[e].r] # <<>>

(* C20: every concurrent StackTrace() call on an error value with a raw
   capture returns the sequence a single sequential call returns, and once
   all calls have returned the cache holds that sequence, a whole and
   unmixed one *)
C20_ConcurrentFirstReads ==
    (race.e # 0 /\ SliceLen(errs[race.e].stackTracePTR) > 0) =>
        LET sequential == [ok |-> TRUE, frames |-> StackTraceCall(errs[race.e]).result]
        IN  /\ \A t \in 1..Len(race.readers) :
                    race.readers[t].pc = "done" =>
                        race.readers[t].result = sequential
            /\ (\A t \in 1..Len(race.readers) : race.readers[t].pc = "done") =>
                    SliceValue(race.ptr, race.len, race.readers) = sequential

(* C22: an error built with the capture on from a call site with d frames
   from the function holding the call outward holds min(d, 15) frames in its
   raw capture, and never more than 15 *)
C22_FrameCeiling ==
    \A e \in Structured :
        origin[e].capture =>
            /\ SliceLen(errs[e].stackTracePTR) = Min(origin[e].frames, depth)
            /\ SliceLen(errs[e].stackTracePTR) <= depth

(* C26: StackTrace() on a raw capture of k >= 1 frames answers k frames, the
   i-th one being the i-th captured frame *)
C26_SymbolizeAllFrames ==
    \A e \in Structured :
        SliceLen(errs[e].stackTracePTR) >= 1 =>
            \A t \in obs[e].rets :
                /\ Len(t) = SliceLen(errs[e].stackTracePTR)
                /\ \A i \in 1..Len(t) :
                        t[i].Function = errs[e].stackTracePTR.elems[i]

(* C25: the cause of every error value is the one given to the Build call
   that made it, a value that existed before it; every chain is free of
   repetitions and ends on a value without cause, and UnwrapChain answers it
   whole, with at most one link more than there were allocating Build calls *)
C25_BuildChainsAcyclic ==
    \A e \in ErrIds :
        LET chain == UnwrapChain(errs, e)
        IN  /\ errs[e].cause = (IF errs[e].type = "err" THEN origin[e].cause ELSE 0)
            /\ errs[e].cause < e
            /\ chain = CauseChain(e)
            /\ \A i, j \in 1..Len(chain) : chain[i] = chain[j] => i = j
            /\ Len(chain) <= Cardinality(Built) + 1
            /\ GetRootCause(errs, e) = chain[Len(chain)]
            /\ errs[GetRootCause(errs, e)].cause = 0

C25_Witness ==
    \E e \in Structured :
        /\ UnwrapChain(errs, e) = <<e, errs[e].cause, 1>>
        /\ errs[e].cause \in Structured
        /\ Cardinality(Built) = 2

(* C24: the constructor in use is the argument of the last SetBuildErrFunc
   call (the concrete one before any call); a terminal call made while it is
   not nil returns what that constructor returns: the concrete one a new
   structured error holding the builder's explicit message, the rendered
   message, the code, the cause, the raw capture and the builder's own
   context and sdc maps, the custom ones their own error or nil; that holds
   again for the concrete constructor after it was registered back *)
C24_RegisteredConstructorUsed ==
    /\ buildErrFunc = registered
    /\ (ret.outcome \notin {"none", "panic"} /\ ret.fn # "nil") =>
          CASE ret.fn = "newErr" ->
                  /\ ret.outcome = "value" /\ ret.val = Len(errs)
                  /\ origin[ret.val].r = ret.r
                  /\ errs[ret.val] =
                        newErr(LastArg(origin[ret.val].sets.message, ""),
                               Rendered(ret.val),
                               LastArg(origin[ret.val].sets.code, ""),
                               ret.cause,
                               callers(GoStack("Wrap", 3, "main"), 4).st,
                               props[ret.r].context, props[ret.r].sdc)
            [] ret.fn = "customError" ->
                  /\ ret.outcome = "value" /\ ret.val = Len(errs)
                  /\ errs[ret.val] = errorsNew("custom error")
            [] OTHER -> ret.outcome = "nil"

C24_Witness ==
    /\ registered = "newErr" /\ ret.fn = "newErr" /\ ret.outcome = "value"
    /\ errs[ret.val].type = "err" /\ errs[ret.val].message = "Y"
    /\ errs[ret.val].cause = 1
    /\ \E e \in 2..(ret.val - 1) : errs[e] = errorsNew("custom error")

(* C23: HasContextKey (resp. HasSDCKey) answers true exactly when the error
   has a structured error in its chain whose Context() (resp. SDC()) holds the
   key, hence false for nil and for an error without structured error; it
   answers true for a key stored with nil (resp. ""), for which
   GetContextValue (resp. GetSDCValue) answers what it answers for an absent
   key *)
C23_KeyPredicates ==
    LET m == Matched(out.err)
    IN  /\ out.op = "HasContextKey" =>
            /\ out.res = (m # 0 /\ out.key \in DOMAIN ErrContext(ctxHeap, errs[m]))
            /\ (m # 0 /\ out.key \in LogKeys(ctxLog[origin[m].r])
                       /\ LastValue(ctxLog[origin[m].r], out.key) = "nil") =>
                    /\ out.res
                    /\ GetContextValue(errs, ctxHeap, out.err, out.key) = "nil"
                    /\ GetContextValue(errs, ctxHeap, out.err, "absent") = "nil"
        /\ out.op = "HasSDCKey" =>
            /\ out.res = (m # 0 /\ out.key \in DOMAIN ErrSDC(sdcHeap, errs[m]))
            /\ (m # 0 /\ out.key \in LogKeys(sdcLog[origin[m].r])
                       /\ LastValue(sdcLog[origin[m].r], out.key) = "") =>
                    /\ out.res
                    /\ GetSDCValue(errs, sdcHeap, out.err, out.key) = ""
                    /\ GetSDCValue(errs, sdcHeap, out.err, "absent") = ""

C23_Witness ==
    /\ out.op = "HasContextKey" /\ out.key = "host" /\ out.res = TRUE
    /\ errs[out.err].type = "wrapError"
    /\ ErrContext(ctxHeap, errs[Matched(out.err)]) = [k \in {"host"} |-> "nil"]
    /\ ErrSDC(sdcHeap, errs[Matched(out.err)]) = [k \in {"trace_id"} |-> ""]

(* C28, as stated: for every non-nil error, ErrorMsg of Parse is the Error()
   of the error given *)
C28_ErrorMsgIsErrorOfArgument ==
    (out.op = "Parse" /\ out.err # 0) =>
        out.res.ErrorMsg = ErrError(errs, out.err)

(* C28, amended: ErrorMsg of Parse is the Error() of the error given when that
   error is structured itself or has no structured error in its chain, and
   otherwise the Error() of the outermost structured error of its chain, which
   lacks the text of the plain errors wrapping it *)
C28_ErrorMsgIsErrorOfMatched ==
    (out.op = "Parse" /\ out.err # 0) =>
        LET m == Matched(out.err)
        IN  /\ m \in {0, out.err} => out.res.ErrorMsg = ErrError(errs, out.err)
            /\ m \notin {0, out.err} =>
                    /\ out.res.ErrorMsg = ErrError(errs, m)
                    /\ out.res.ErrorMsg # ErrError(errs, out.err)

C28_Witness ==
    /\ out.op = "Parse" /\ out.err # 0
    /\ errs[out.err].type = "wrapError"
    /\ out.res.ErrorMsg = "X" \o Delim \o "disk full"
    /\ ErrError(errs, out.err) = "ctx: X" \o Delim \o "disk full"

(* C27: the builder a standalone constructor returns is a newly created
   builder but for the field the constructor is named after: Message sets
   only the message, Code only the code, StackTrace only the capture flag,
   Context only the given context key, and SDC fills only the SDC bag and
   leaves the context bag empty *)
C27_SeedsOneField ==
    [][(Len(props') = Len(props) + 1 /\ setLog'[Len(props')].ctor # <<>>) =>
        LET c == setLog'[Len(props')].ctor
            fresh == create(Len(ctxHeap) + 1, Len(sdcHeap) + 1)
            p == props'[Len(props')]
            context == ctxHeap'[p.context]
            sdc == sdcHeap'[p.sdc]
        IN  CASE c[1] = "Message" ->
                    /\ p = [fresh EXCEPT !.message = c[2]]
                    /\ context = EmptyMap /\ sdc = EmptyMap
              [] c[1] = "Code" ->
                    /\ p = [fresh EXCEPT !.code = c[2]]
                    /\ context = EmptyMap /\ sdc = EmptyMap
              [] c[1] = "StackTrace" ->
                    /\ p = [fresh EXCEPT !.withStackTrace = TRUE]
                    /\ context = EmptyMap /\ sdc = EmptyMap
              [] c[1] = "Context" ->
                    /\ p = fresh
                    /\ context = MapPut(EmptyMap, c[2], c[3]) /\ sdc = EmptyMap
              [] OTHER ->
                    /\ p = fresh
                    /\ context = EmptyMap /\ sdc # EmptyMap
      ]_vars

(* The link reached from e by following the Unwrap methods k times, 0 past
   the end of the chain *)
RECURSIVE After(_, _)
After(e, k) ==
    IF e = 0 \/ k = 0 THEN e ELSE After(ErrorsUnwrap(errs, e), k - 1)

(* The chain reachable from e runs into a cycle *)
Cyclic(e) == e # 0 /\ After(e, Len(errs)) # 0

(* The links of the cycle the chain of e runs into *)
CycleOf(e) == {After(After(e, Len(errs)), k) : k \in 0..Len(errs)}

(* A call is in progress on an error whose chain runs into a cycle *)
WalkOnCycle == walk.op # "" /\ Cyclic(walk.err)

WalkOnStructuredCycle ==
    WalkOnCycle /\ \E x \in CycleOf(walk.err) : errs[x].type = "err"

(* C21, as stated: a call of UnwrapChain or GetRootCause on a chain with a
   cycle never returns, and appends links for ever, up to any length *)
C21_CycleAppendsForever ==
    /\ [](WalkOnCycle => walk.pc # "done")
    /\ WalkOnCycle ~> (Len(walk.chain) = MaxWalkLen)

(* C21, amended: such a call never returns; it appends links for ever when
   the cycle holds a structured error; when it holds none, the call appends
   no link any more once errors.As is on a link with no structured error
   ahead, and never leaves errors.As *)
C21_CycleNeverReturns ==
    /\ [](WalkOnCycle => walk.pc # "done")
    /\ WalkOnStructuredCycle ~> (Len(walk.chain) = MaxWalkLen)
    /\ [][(WalkOnCycle /\ ~WalkOnStructuredCycle /\ walk.pc = "as"
            /\ \A k \in 0..Len(errs) :
                    errs[After(walk.current, k)].type # "err") =>
                (walk'.pc = "as" /\ walk'.chain = walk.chain)]_vars

C21_Witness ==
    /\ WalkOnStructuredCycle
    /\ walk.op = "GetRootCause"
    /\ Len(walk.chain) = MaxWalkLen
    /\ walk.chain[MaxWalkLen] = walk.chain[MaxWalkLen - 1]

====
